---- MODULE Spec2Model ----
(***************************************************************************)
(* A model of online_chrodpro_processor.py: the French typography          *)
(* normalizer, the ChordPro parser, the section deduplicator, the chord    *)
(* extractor, the slide/layout part of the FreeShow generator, the         *)
(* enrichment of a document (enhance_chordpro) and the batch loops.        *)
(*                                                                         *)
(* A Python string is a sequence of one-character values.  Characters      *)
(* outside ASCII carry a name: "nbsp" is U+00A0, "<<" is the opening       *)
(* guillemet U+00AB and ">>" the closing guillemet U+00BB.  "\n" is the    *)
(* line feed.  An Optional value is a sequence of zero (None) or one       *)
(* element.  md5 is taken to be collision free, so a digest is modelled    *)
(* by the string that is hashed.                                           *)
(***************************************************************************)
EXTENDS Integers, Sequences, FiniteSets, TLC

VARIABLES
    pc,                       \* position of the program
    lines, pos,               \* parse_chordpro_file: content.split('\n'), loop index
    metadata, sections,
    current_section_label, current_section_content,
    current_section_info, in_section,
    unique_sections, index_map,          \* deduplicate_sections
    unique_slide_ids, slides, layout_slides,   \* generate_freeshow_file
    text, fixed, fixed_twice,            \* fix_french_punctuation
    chord_line, chords, clean_text,      \* parse_chord_line
    caller, filename,                    \* who called the parser, stem of the file
    file_metadata, original_sections,    \* enhance_chordpro: result of its parse
    output_lines, enhanced_file,         \* enhance_chordpro: lines built, file written
    batch_mode, chordpro_files, file_i,  \* process_files_local / process_files_online
    processed_files, printed

vars == <<pc, lines, pos, metadata, sections, current_section_label,
          current_section_content, current_section_info, in_section,
          unique_sections, index_map, unique_slide_ids, slides, layout_slides,
          text, fixed, fixed_twice, chord_line, chords, clean_text,
          caller, filename, file_metadata, original_sections, output_lines,
          enhanced_file, batch_mode, chordpro_files, file_i, processed_files, printed>>

parserVars == <<lines, pos, metadata, sections, current_section_label,
                current_section_content, current_section_info, in_section>>
showVars == <<unique_sections, index_map, unique_slide_ids, slides, layout_slides>>
punctVars == <<text, fixed, fixed_twice>>
chordVars == <<chord_line, chords, clean_text>>
enhanceVars == <<caller, filename, file_metadata, original_sections, output_lines,
                 enhanced_file>>
batchVars == <<batch_mode, chordpro_files, file_i, processed_files, printed>>

(***************************************************************************)
(* Bounds of the model.                                                    *)
(***************************************************************************)
MaxTextLen == 4        \* longest string given to fix_french_punctuation
MaxChordLineLen == 7   \* longest line given to parse_chord_line
MaxLines == 4          \* most lines of a parsed document
MaxSections == 3       \* most section blocks of a document built from blocks
MaxBatch == 3          \* most documents of a batch
MaxPieces == 3         \* most pieces of a document given to enhance_chordpro
MaxLabelLines == 4     \* most lines of a document of labels, markers and directives

(***************************************************************************)
(* Strings.                                                                *)
(***************************************************************************)
None == <<>>
Some(x) == <<x>>

NBSP == "nbsp"
LAQUO == "<<"
RAQUO == ">>"
LF == "\n"

\* white space of the ASCII range only
IsSpaceAscii(c) == c \in {" ", "\t", LF}

\* str.isspace() and \s for the characters of the model; U+00A0 is white space
IsSpace(c) == c \in {" ", "\t", LF, NBSP}

\* all strings over alphabet A of length at most n
RECURSIVE StringsUpTo(_, _)
StringsUpTo(A, n) ==
    IF n = 0 THEN {<<>>}
    ELSE LET shorter == StringsUpTo(A, n - 1)
         IN  shorter \cup {Append(s, c) : s \in {t \in shorter : Len(t) = n - 1}, c \in A}

RECURSIVE Concat(_)
Concat(ss) == IF ss = <<>> THEN <<>> ELSE Head(ss) \o Concat(Tail(ss))

\* s[i:j] of Python for 0 <= i, with 0-based i and exclusive 0-based j
Slice(s, i, j) == IF j <= i THEN <<>> ELSE SubSeq(s, i + 1, j)

\* first index >= i of s that holds no white space, Len(s)+1 when there is none
RECURSIVE SkipSpace(_, _)
SkipSpace(s, i) ==
    IF i > Len(s) THEN i
    ELSE IF IsSpace(s[i]) THEN SkipSpace(s, i + 1) ELSE i

(***************************************************************************)
(* FrenchPunctuationHandler                                                *)
(***************************************************************************)
DoublePunct == {";", ":", "!", "?", RAQUO}

\* DOUBLE_PUNCT_PATTERN.sub(NBSP + '\1', s), scanning from index i:
\* \s*([;:!?>>]) matches at i when the (possibly empty) maximal run of white
\* space that starts at i is followed by one of the marks.
RECURSIVE SubDoublePunct(_, _)
SubDoublePunct(s, i) ==
    IF i > Len(s) THEN <<>>
    ELSE LET j == SkipSpace(s, i)
         IN  IF j <= Len(s) /\ s[j] \in DoublePunct
             THEN <<NBSP, s[j]>> \o SubDoublePunct(s, j + 1)
             ELSE <<s[i]>> \o SubDoublePunct(s, i + 1)

\* OPENING_GUILLEMETS_PATTERN.sub('\1' + NBSP, s), scanning from index i:
\* (<<)\s* matches at every opening guillemet and takes the white space after it.
RECURSIVE SubOpeningGuillemets(_, _)
SubOpeningGuillemets(s, i) ==
    IF i > Len(s) THEN <<>>
    ELSE IF s[i] = LAQUO
         THEN <<LAQUO, NBSP>> \o SubOpeningGuillemets(s, SkipSpace(s, i + 1))
         ELSE <<s[i]>> \o SubOpeningGuillemets(s, i + 1)

fix_french_punctuation(s) ==
    IF s = <<>> THEN s
    ELSE SubOpeningGuillemets(SubDoublePunct(s, 1), 1)

(***************************************************************************)
(* ChordProProcessor.parse_chord_line                                      *)
(***************************************************************************)
\* str(n) for n >= 0
RECURSIVE Dec(_)
Dec(n) ==
    LET digit == <<"0", "1", "2", "3", "4", "5", "6", "7", "8", "9">>
    IN  IF n < 10 THEN <<digit[n + 1]>> ELSE Dec(n \div 10) \o <<digit[(n % 10) + 1]>>

\* first index >= i of s that holds "]", 0 when there is none
RECURSIVE FindClose(_, _)
FindClose(s, i) ==
    IF i > Len(s) THEN 0
    ELSE IF s[i] = "]" THEN i ELSE FindClose(s, i + 1)

\* chord_pattern = \[([^\]]+)\] tried at index i: the index of the closing
\* bracket of the match, 0 when the pattern does not match at i
ChordMatchEndAnyLength(s, i) ==
    IF s[i] # "[" THEN 0 ELSE FindClose(s, i + 1)

ChordMatchEnd(s, i) ==
    IF s[i] # "[" THEN 0
    ELSE LET j == FindClose(s, i + 1)
         IN  IF j > i + 1 THEN j ELSE 0

\* chord_pattern.finditer(s) from index i: the matches, left to right, each
\* with match.start() (0-based) and match.group(1)
RECURSIVE FindIter(_, _)
FindIter(s, i) ==
    IF i > Len(s) THEN <<>>
    ELSE LET j == ChordMatchEnd(s, i)
         IN  IF j # 0
             THEN <<[start |-> i - 1, group1 |-> SubSeq(s, i + 1, j - 1)]>>
                  \o FindIter(s, j + 1)
             ELSE FindIter(s, i + 1)

\* chord_pattern.sub('', s) from index i
RECURSIVE SubChords(_, _)
SubChords(s, i) ==
    IF i > Len(s) THEN <<>>
    ELSE LET j == ChordMatchEnd(s, i)
         IN  IF j # 0 THEN SubChords(s, j + 1)
             ELSE <<s[i]>> \o SubChords(s, i + 1)

\* len(f"[{chord}]")
BracketLenNoBrackets(chord) == Len(chord)

BracketLen(chord) == Len(chord) + 2

\* the inner loop over the chords found so far
RECURSIVE AdjustPos(_, _, _)
AdjustPos(prev, p, adjusted_pos) ==
    IF prev = <<>> THEN adjusted_pos
    ELSE AdjustPos(Tail(prev), p,
                   IF Head(prev).original_pos < p
                   THEN adjusted_pos - BracketLen(Head(prev).chord)
                   ELSE adjusted_pos)

Max(a, b) == IF a >= b THEN a ELSE b

\* the loop over the matches; acc is the list `chords` built so far
RECURSIVE ChordLoop(_, _)
ChordLoop(matches, acc) ==
    IF matches = <<>> THEN acc
    ELSE LET chord == Head(matches).group1
             p == Head(matches).start
         IN  ChordLoop(Tail(matches),
                       Append(acc, [id |-> chord \o Dec(p),
                                    pos |-> Max(0, AdjustPos(acc, p, p)),
                                    key |-> chord,
                                    chord |-> chord,
                                    original_pos |-> p]))

parse_chord_line(line) ==
    [chords |-> ChordLoop(FindIter(line, 1), <<>>),
     clean_text |-> SubChords(line, 1)]

(***************************************************************************)
(* Python string methods used by the parser.                               *)
(***************************************************************************)
LowerLetters == <<"a", "b", "c", "d", "e", "f", "g", "h", "i", "j", "k", "l", "m",
                  "n", "o", "p", "q", "r", "s", "t", "u", "v", "w", "x", "y", "z">>
UpperLetters == <<"A", "B", "C", "D", "E", "F", "G", "H", "I", "J", "K", "L", "M",
                  "N", "O", "P", "Q", "R", "S", "T", "U", "V", "W", "X", "Y", "Z">>
Digits == {"0", "1", "2", "3", "4", "5", "6", "7", "8", "9"}

IsLower(c) == \E k \in 1..26 : LowerLetters[k] = c
IsUpper(c) == \E k \in 1..26 : UpperLetters[k] = c
IsLetter(c) == IsLower(c) \/ IsUpper(c)
LowerChar(c) == IF IsUpper(c) THEN LowerLetters[CHOOSE k \in 1..26 : UpperLetters[k] = c] ELSE c
UpperChar(c) == IF IsLower(c) THEN UpperLetters[CHOOSE k \in 1..26 : LowerLetters[k] = c] ELSE c

\* str.lower()
Lower(s) == [k \in 1..Len(s) |-> LowerChar(s[k])]

\* str.title(): a letter that follows no letter is upper-cased, the others lower-cased
Title(s) ==
    [k \in 1..Len(s) |->
        IF k = 1 \/ ~IsLetter(s[k - 1]) THEN UpperChar(s[k]) ELSE LowerChar(s[k])]

\* last index <= i of s that holds no white space, 0 when there is none
RECURSIVE SkipSpaceBack(_, _)
SkipSpaceBack(s, i) ==
    IF i < 1 THEN 0
    ELSE IF IsSpace(s[i]) THEN SkipSpaceBack(s, i - 1) ELSE i

\* str.strip()
Strip(s) ==
    LET a == SkipSpace(s, 1)
        b == SkipSpaceBack(s, Len(s))
    IN  IF a > b THEN <<>> ELSE SubSeq(s, a, b)

\* str.startswith(p)
StartsWith(s, p) == Len(s) >= Len(p) /\ SubSeq(s, 1, Len(p)) = p

\* s[n:-1]
SliceToLast(s, n) == Slice(s, n, Len(s) - 1)

\* `key in s` for strings
Contains(s, key) ==
    \E k \in 0..(Len(s) - Len(key)) : SubSeq(s, k + 1, k + Len(key)) = key

\* '\n'.join(ls)
RECURSIVE Join(_)
Join(ls) ==
    IF ls = <<>> THEN <<>>
    ELSE IF Len(ls) = 1 THEN ls[1]
    ELSE ls[1] \o <<LF>> \o Join(Tail(ls))

\* last index of s in a..b that holds c, 0 when there is none
RECURSIVE LastIndexOf(_, _, _, _)
LastIndexOf(s, c, a, b) ==
    IF b < a THEN 0
    ELSE IF s[b] = c THEN b ELSE LastIndexOf(s, c, a, b - 1)

\* first index >= i of s that holds c, 0 when there is none
RECURSIVE FirstIndexOf(_, _, _)
FirstIndexOf(s, c, i) ==
    IF i > Len(s) THEN 0
    ELSE IF s[i] = c THEN i ELSE FirstIndexOf(s, c, i + 1)

\* a dict as the sequence of its items in insertion order; d[k] = v
RECURSIVE DictSet(_, _, _)
DictSet(d, k, v) ==
    IF d = <<>> THEN <<[key |-> k, value |-> v]>>
    ELSE IF Head(d).key = k THEN <<[key |-> k, value |-> v]>> \o Tail(d)
    ELSE <<Head(d)>> \o DictSet(Tail(d), k, v)

DictHas(d, k) == \E n \in 1..Len(d) : d[n].key = k
DictGet(d, k) == d[CHOOSE n \in 1..Len(d) : d[n].key = k].value

(***************************************************************************)
(* ChordProProcessor.parse_chordpro_file                                   *)
(***************************************************************************)
W_refrain == <<"r", "e", "f", "r", "a", "i", "n">>
W_chorus == <<"c", "h", "o", "r", "u", "s">>
W_strophe == <<"s", "t", "r", "o", "p", "h", "e">>
W_verse == <<"v", "e", "r", "s", "e">>
W_pont == <<"p", "o", "n", "t">>
W_bridge == <<"b", "r", "i", "d", "g", "e">>
W_introduction == <<"i", "n", "t", "r", "o", "d", "u", "c", "t", "i", "o", "n">>
W_intro == <<"i", "n", "t", "r", "o">>
W_fin == <<"f", "i", "n">>
W_outro == <<"o", "u", "t", "r", "o">>
W_pre_chorus == <<"p", "r", "e", "_", "c", "h", "o", "r", "u", "s">>
W_tag == <<"t", "a", "g">>

CommentPrefix == <<"{", "c", ":">>
StartOfPrefix == <<"{", "s", "t", "a", "r", "t", "_", "o", "f", "_">>
EndOfPrefix == <<"{", "e", "n", "d", "_", "o", "f", "_">>
BracePrefix == <<"{">>

\* label_to_type_map, in declaration order
label_to_type_map ==
    <<[key |-> W_refrain, value |-> W_chorus],
      [key |-> W_chorus, value |-> W_chorus],
      [key |-> W_strophe, value |-> W_verse],
      [key |-> W_verse, value |-> W_verse],
      [key |-> W_pont, value |-> W_bridge],
      [key |-> W_bridge, value |-> W_bridge],
      [key |-> W_introduction, value |-> W_intro],
      [key |-> W_intro, value |-> W_intro],
      [key |-> W_fin, value |-> W_outro],
      [key |-> W_outro, value |-> W_outro]>>

\* length of the longest prefix of s made of [a-zA-Z\s]
RECURSIVE LetterSpaceRun(_, _)
LetterSpaceRun(s, i) ==
    IF i > Len(s) THEN Len(s)
    ELSE IF IsLetter(s[i]) \/ IsSpace(s[i]) THEN LetterSpaceRun(s, i + 1) ELSE i - 1

AllDigits(s) == \A k \in 1..Len(s) : s[k] \in Digits

\* re.match(r'([a-zA-Z\s]+)\s*(\d+|[a-zA-Z])$', s): None, or the two groups.
\* Group 1 is greedy: it takes the whole run of letters and spaces when digits
\* follow up to the end, and gives back its last letter to group 2 when the run
\* reaches the end of s.
LabelMatch(s) ==
    LET m == LetterSpaceRun(s, 1)
    IN  IF m = 0 THEN None
        ELSE IF m < Len(s)
             THEN IF AllDigits(SubSeq(s, m + 1, Len(s)))
                  THEN Some([group1 |-> SubSeq(s, 1, m), group2 |-> SubSeq(s, m + 1, Len(s))])
                  ELSE None
             ELSE IF m >= 2 /\ IsLetter(s[m])
                  THEN Some([group1 |-> SubSeq(s, 1, m - 1), group2 |-> <<s[m]>>])
                  ELSE None

\* the loop over label_to_type_map.items() from entry n
RECURSIVE StandardType(_, _, _)
StandardType(type_part, section_type, n) ==
    IF n > Len(label_to_type_map) THEN section_type
    ELSE IF Contains(type_part, label_to_type_map[n].key)
         THEN label_to_type_map[n].value
         ELSE StandardType(type_part, section_type, n + 1)

\* `if current_section_label:` : neither None nor ''
Truthy(label) == label # None /\ label[1] # <<>>

\* name, type and number of the section a start marker opens
SectionInfo(block_type, label) ==
    IF ~Truthy(label)
    THEN [name |-> Title(block_type), type |-> block_type, number |-> None]
    ELSE LET label_lower == Lower(label[1])
             match == LabelMatch(label_lower)
             type_part == IF match # None THEN Strip(match[1].group1) ELSE label_lower
         IN  [name |-> label[1],
              type |-> StandardType(type_part, block_type, 1),
              number |-> IF match # None THEN Some(match[1].group2) ELSE None]

\* re.match(r'\{([^:]+)(?::(.*))?\}', s) for s that starts with "{": None, or
\* group 1 and the optional group 2
DirectiveMatch(s) ==
    LET c == FirstIndexOf(s, ":", 2)
        afterColon == IF c = 0 THEN 0 ELSE LastIndexOf(s, "}", c + 1, Len(s))
        beforeColon == LastIndexOf(s, "}", 3, IF c = 0 THEN Len(s) ELSE c - 1)
    IN  IF c = 2 THEN None
        ELSE IF afterColon # 0
             THEN Some([group1 |-> SubSeq(s, 2, c - 1),
                        group2 |-> Some(SubSeq(s, c + 1, afterColon - 1))])
             ELSE IF beforeColon # 0
                  THEN Some([group1 |-> SubSeq(s, 2, beforeColon - 1), group2 |-> None])
                  ELSE None

\* a mapping in which the first line of a key wins
RecordDirectiveFirstWins(md, stripped_line) ==
    LET directive_match == DirectiveMatch(stripped_line)
    IN  IF directive_match = None \/ DictHas(md, Strip(directive_match[1].group1)) THEN md
        ELSE LET g2 == directive_match[1].group2
             IN  DictSet(md, Strip(directive_match[1].group1),
                         IF g2 # None /\ g2[1] # <<>> THEN Strip(g2[1]) ELSE <<>>)

\* the metadata after a brace line that is neither comment nor section marker
RecordDirective(md, stripped_line) ==
    LET directive_match == DirectiveMatch(stripped_line)
    IN  IF directive_match = None THEN md
        ELSE LET g2 == directive_match[1].group2
             IN  DictSet(md, Strip(directive_match[1].group1),
                         IF g2 # None /\ g2[1] # <<>> THEN Strip(g2[1]) ELSE <<>>)

\* ChordProSection(name=..., type=..., number=..., content=..., raw_content=...)
ChordProSection(info, content) ==
    [name |-> info.name, type |-> info.type, number |-> info.number,
     content |-> content, raw_content |-> Join(content)]

IsCommentLine(line) == StartsWith(Strip(line), CommentPrefix)
IsStartLine(line) == ~IsCommentLine(line) /\ StartsWith(Strip(line), StartOfPrefix)
IsEndLine(line) ==
    ~IsCommentLine(line) /\ ~IsStartLine(line) /\ StartsWith(Strip(line), EndOfPrefix)
IsBraceLine(line) ==
    /\ ~IsCommentLine(line) /\ ~IsStartLine(line) /\ ~IsEndLine(line)
    /\ StartsWith(Strip(line), BracePrefix)

Parsing == pc = "parse" /\ pos <= Len(lines)

\* if stripped_line.startswith('{c:')
ParseCommentLine ==
    /\ Parsing
    /\ IsCommentLine(lines[pos])
    /\ current_section_label' = Some(Strip(SliceToLast(Strip(lines[pos]), 3)))
    /\ current_section_content' =
          IF in_section THEN Append(current_section_content, lines[pos])
          ELSE current_section_content
    /\ pos' = pos + 1
    /\ UNCHANGED <<pc, lines, metadata, sections, current_section_info, in_section>>
    /\ UNCHANGED <<showVars, punctVars, chordVars, enhanceVars, batchVars>>

\* a start marker that drops the section still open instead of emitting it
ParseStartLineNoAutoClose ==
    /\ Parsing
    /\ IsStartLine(lines[pos])
    /\ in_section' = TRUE
    /\ current_section_info' =
          Some(SectionInfo(Strip(SliceToLast(Strip(lines[pos]), 10)), current_section_label))
    /\ current_section_label' =
          IF Truthy(current_section_label) THEN None ELSE current_section_label
    /\ current_section_content' = <<>>
    /\ pos' = pos + 1
    /\ UNCHANGED <<pc, lines, metadata, sections>>
    /\ UNCHANGED <<showVars, punctVars, chordVars, enhanceVars, batchVars>>

\* a start marker that uses the pending label and leaves it pending
ParseStartLineKeepLabel ==
    /\ Parsing
    /\ IsStartLine(lines[pos])
    /\ sections' =
          IF in_section
          THEN Append(sections, ChordProSection(current_section_info[1], current_section_content))
          ELSE sections
    /\ in_section' = TRUE
    /\ current_section_info' =
          Some(SectionInfo(Strip(SliceToLast(Strip(lines[pos]), 10)), current_section_label))
    /\ current_section_content' = <<>>
    /\ pos' = pos + 1
    /\ UNCHANGED <<pc, lines, metadata, current_section_label>>
    /\ UNCHANGED <<showVars, punctVars, chordVars, enhanceVars, batchVars>>

\* elif stripped_line.startswith('{start_of_')
ParseStartLine ==
    /\ Parsing
    /\ IsStartLine(lines[pos])
    /\ sections' =
          IF in_section
          THEN Append(sections, ChordProSection(current_section_info[1], current_section_content))
          ELSE sections
    /\ in_section' = TRUE
    /\ current_section_info' =
          Some(SectionInfo(Strip(SliceToLast(Strip(lines[pos]), 10)), current_section_label))
    /\ current_section_label' =
          IF Truthy(current_section_label) THEN None ELSE current_section_label
    /\ current_section_content' = <<>>
    /\ pos' = pos + 1
    /\ UNCHANGED <<pc, lines, metadata>>
    /\ UNCHANGED <<showVars, punctVars, chordVars, enhanceVars, batchVars>>

\* elif stripped_line.startswith('{end_of_')
ParseEndLine ==
    /\ Parsing
    /\ IsEndLine(lines[pos])
    /\ IF in_section
       THEN /\ sections' = Append(sections, ChordProSection(current_section_info[1],
                                                            current_section_content))
            /\ in_section' = FALSE
            /\ current_section_info' = None
            /\ current_section_content' = <<>>
       ELSE UNCHANGED <<sections, in_section, current_section_info, current_section_content>>
    /\ pos' = pos + 1
    /\ UNCHANGED <<pc, lines, metadata, current_section_label>>
    /\ UNCHANGED <<showVars, punctVars, chordVars, enhanceVars, batchVars>>

\* elif stripped_line.startswith('{')
ParseBraceLine ==
    /\ Parsing
    /\ IsBraceLine(lines[pos])
    /\ metadata' = RecordDirective(metadata, Strip(lines[pos]))
    /\ current_section_content' =
          IF in_section THEN Append(current_section_content, lines[pos])
          ELSE current_section_content
    /\ pos' = pos + 1
    /\ UNCHANGED <<pc, lines, sections, current_section_label, current_section_info, in_section>>
    /\ UNCHANGED <<showVars, punctVars, chordVars, enhanceVars, batchVars>>

\* a content line stored trimmed instead of raw
ParseContentLineStripped ==
    /\ Parsing
    /\ ~StartsWith(Strip(lines[pos]), BracePrefix)
    /\ in_section
    /\ current_section_content' = Append(current_section_content, Strip(lines[pos]))
    /\ pos' = pos + 1
    /\ UNCHANGED <<pc, lines, metadata, sections, current_section_label,
                   current_section_info, in_section>>
    /\ UNCHANGED <<showVars, punctVars, chordVars, enhanceVars, batchVars>>

\* elif in_section
ParseContentLine ==
    /\ Parsing
    /\ ~StartsWith(Strip(lines[pos]), BracePrefix)
    /\ in_section
    /\ current_section_content' = Append(current_section_content, lines[pos])
    /\ pos' = pos + 1
    /\ UNCHANGED <<pc, lines, metadata, sections, current_section_label,
                   current_section_info, in_section>>
    /\ UNCHANGED <<showVars, punctVars, chordVars, enhanceVars, batchVars>>

\* no branch taken: a line outside every section that starts with no brace
ParseSkipLine ==
    /\ Parsing
    /\ ~StartsWith(Strip(lines[pos]), BracePrefix)
    /\ ~in_section
    /\ pos' = pos + 1
    /\ UNCHANGED <<pc, lines, metadata, sections, current_section_label,
                   current_section_content, current_section_info, in_section>>
    /\ UNCHANGED <<showVars, punctVars, chordVars, enhanceVars, batchVars>>

\* a return that first emits the section still open
ParseReturnFlush ==
    /\ pc = "parse"
    /\ pos > Len(lines)
    /\ pc' = "parsed"
    /\ sections' =
          IF in_section
          THEN Append(sections, ChordProSection(current_section_info[1], current_section_content))
          ELSE sections
    /\ UNCHANGED <<lines, pos, metadata, current_section_label, current_section_content,
                   current_section_info, in_section>>
    /\ UNCHANGED <<showVars, punctVars, chordVars, enhanceVars, batchVars>>

\* return metadata, sections
ParseReturn ==
    /\ pc = "parse"
    /\ pos > Len(lines)
    /\ pc' = "parsed"
    /\ UNCHANGED <<parserVars, showVars, punctVars, chordVars, enhanceVars, batchVars>>

(***************************************************************************)
(* ChordProProcessor.deduplicate_sections                                  *)
(***************************************************************************)
\* [line for line in section.content if not line.strip().startswith('{c:')]
ContentLines(content) == SelectSeq(content, LAMBDA line : ~IsCommentLine(line))

\* hashlib.md5('\n'.join(content_lines).encode('utf-8')).hexdigest()
ContentHash(section) == Join(ContentLines(section.content))

\* a loop in which a repeated section takes the place of its first occurrence
RECURSIVE DedupLoopKeepLast(_, _, _, _, _)
DedupLoopKeepLast(secs, n, unique, section_map, imap) ==
    IF n > Len(secs) THEN [unique_sections |-> unique, index_map |-> imap]
    ELSE LET content_hash == ContentHash(secs[n])
         IN  IF DictHas(section_map, content_hash)
             THEN DedupLoopKeepLast(secs, n + 1,
                      [unique EXCEPT ![DictGet(section_map, content_hash) + 1] = secs[n]],
                      section_map, Append(imap, DictGet(section_map, content_hash)))
             ELSE DedupLoopKeepLast(secs, n + 1, Append(unique, secs[n]),
                                    DictSet(section_map, content_hash, Len(unique)),
                                    Append(imap, Len(unique)))

\* the loop over the sections from section n; section_map is a dict
RECURSIVE DedupLoop(_, _, _, _, _)
DedupLoop(secs, n, unique, section_map, imap) ==
    IF n > Len(secs) THEN [unique_sections |-> unique, index_map |-> imap]
    ELSE LET content_hash == ContentHash(secs[n])
         IN  IF DictHas(section_map, content_hash)
             THEN DedupLoop(secs, n + 1, unique, section_map,
                            Append(imap, DictGet(section_map, content_hash)))
             ELSE DedupLoop(secs, n + 1, Append(unique, secs[n]),
                            DictSet(section_map, content_hash, Len(unique)),
                            Append(imap, Len(unique)))

deduplicate_sections(secs) == DedupLoop(secs, 1, <<>>, <<>>, <<>>)

(***************************************************************************)
(* ChordProProcessor.create_freeshow_slide                                 *)
(***************************************************************************)
section_colors ==
    <<[key |-> W_verse, value |-> ""],
      [key |-> W_chorus, value |-> "#f525d2"],
      [key |-> W_bridge, value |-> "#f52598"],
      [key |-> W_pre_chorus, value |-> "#25d2f5"],
      [key |-> W_tag, value |-> "#f5d225"],
      [key |-> W_intro, value |-> ""],
      [key |-> W_outro, value |-> ""]>>

global_groups ==
    <<[key |-> W_chorus, value |-> W_chorus],
      [key |-> W_bridge, value |-> W_bridge],
      [key |-> W_pre_chorus, value |-> W_pre_chorus]>>

\* first index >= i of s that holds no digit, Len(s)+1 when there is none
RECURSIVE SkipDigits(_, _)
SkipDigits(s, i) ==
    IF i > Len(s) THEN i
    ELSE IF s[i] \in Digits THEN SkipDigits(s, i + 1) ELSE i

\* re.sub(r'^\d+\.\s*', '', s)
StripEnumeration(s) ==
    LET d == SkipDigits(s, 1)
    IN  IF d > 1 /\ d <= Len(s) /\ s[d] = "."
        THEN SubSeq(s, SkipSpace(s, d + 1), Len(s))
        ELSE s

\* the loop over section.content from line n
RECURSIVE SlideLines(_, _)
SlideLines(content, n) ==
    IF n > Len(content) THEN <<>>
    ELSE LET line == content[n]
             parsed == parse_chord_line(line)
         IN  IF StartsWith(line, CommentPrefix) THEN SlideLines(content, n + 1)
             ELSE IF Strip(line) # <<>>
                  THEN <<[align |-> "",
                          text |-> fix_french_punctuation(StripEnumeration(parsed.clean_text)),
                          chords |-> parsed.chords]>>
                       \o SlideLines(content, n + 1)
                  ELSE SlideLines(content, n + 1)

create_freeshow_slide(section) ==
    [group |-> section.name,
     color |-> IF DictHas(section_colors, section.type)
               THEN DictGet(section_colors, section.type) ELSE "",
     globalGroup |-> IF DictHas(global_groups, section.type)
                     THEN Some(DictGet(global_groups, section.type)) ELSE None,
     lines |-> SlideLines(section.content, 1)]

(***************************************************************************)
(* ChordProProcessor.generate_freeshow_file: slides and layout             *)
(***************************************************************************)
\* hashlib.md5(f"{section.type}{i}{section.raw_content}".encode('utf-8')).hexdigest()[:11]
SlideId(section, i) == section.type \o Dec(i) \o section.raw_content

\* the loop over enumerate(unique_sections) from index i (0-based)
RECURSIVE SlideLoop(_, _, _, _)
SlideLoop(unique, i, slds, ids) ==
    IF i >= Len(unique) THEN [slides |-> slds, unique_slide_ids |-> ids]
    ELSE LET slide_id == SlideId(unique[i + 1], i)
         IN  SlideLoop(unique, i + 1,
                       DictSet(slds, slide_id, create_freeshow_slide(unique[i + 1])),
                       Append(ids, slide_id))

\* for unique_index in index_map: layout_slides.append({"id": unique_slide_ids[unique_index]})
LayoutSlides(imap, ids) == [n \in 1..Len(imap) |-> [id |-> ids[imap[n] + 1]]]

\* lines 575-592, after the file was parsed
BuildShow ==
    /\ pc = "parsed"
    /\ caller = "generate"
    /\ LET dedup == deduplicate_sections(sections)
           built == SlideLoop(dedup.unique_sections, 0, <<>>, <<>>)
       IN  /\ unique_sections' = dedup.unique_sections
           /\ index_map' = dedup.index_map
           /\ slides' = built.slides
           /\ unique_slide_ids' = built.unique_slide_ids
           /\ layout_slides' = LayoutSlides(dedup.index_map, built.unique_slide_ids)
    /\ pc' = "done"
    /\ UNCHANGED <<parserVars, punctVars, chordVars, enhanceVars, batchVars>>

(***************************************************************************)
(* The normalizer and the chord extractor as operations.                   *)
(***************************************************************************)
\* The normalizer runs on a content line in enhance_chordpro and again on the
\* display text made from it in create_freeshow_slide.
FixFrenchPunctuation ==
    /\ pc \in {"punct_start", "punct_once"}
    /\ IF pc = "punct_start"
       THEN /\ fixed' = fix_french_punctuation(text)
            /\ pc' = "punct_once"
            /\ UNCHANGED fixed_twice
       ELSE /\ fixed_twice' = fix_french_punctuation(fixed)
            /\ pc' = "punct_twice"
            /\ UNCHANGED fixed
    /\ UNCHANGED <<text, parserVars, showVars, chordVars, enhanceVars, batchVars>>

ParseChordLine ==
    /\ pc = "chord_start"
    /\ chords' = parse_chord_line(chord_line).chords
    /\ clean_text' = parse_chord_line(chord_line).clean_text
    /\ pc' = "chord_done"
    /\ UNCHANGED <<chord_line, parserVars, showVars, punctVars, enhanceVars, batchVars>>

(***************************************************************************)
(* enhance_chordpro.                                                       *)
(***************************************************************************)
\* content.split('\n')
RECURSIVE Split(_)
Split(s) ==
    LET k == FirstIndexOf(s, LF, 1)
    IN  IF k = 0 THEN <<s>>
        ELSE <<SubSeq(s, 1, k - 1)>> \o Split(SubSeq(s, k + 1, Len(s)))

\* the fields of SongMetadata that enhance_chordpro reads
SongMetadata(number, title, composer, author, copyright) ==
    [number |-> number, title |-> title, composer |-> composer, author |-> author,
     copyright |-> copyright]

\* self.metadata as load_metadata builds it: the key is the lowercased
\* 'Fichier' column, number is that column as written
self_metadata ==
    <<[key |-> <<"j", "1">>,
       value |-> SongMetadata(<<"J", "1">>, <<"a", " ", ":">>, <<>>, <<"b">>,
                              <<"c", " ", "2", "0", "0", "1", "9">>)],
      [key |-> <<"j", "3">>,
       value |-> SongMetadata(<<"j", "3">>, <<"t">>, <<"d">>, <<>>, <<"9", "9">>)]>>

\* self.metadata.get(lookup_key)
Lookup(lookup_key) ==
    IF DictHas(self_metadata, lookup_key) THEN Some(DictGet(self_metadata, lookup_key))
    ELSE None

N_number == <<"n", "u", "m", "b", "e", "r">>
N_title == <<"t", "i", "t", "l", "e">>
N_lyricist == <<"l", "y", "r", "i", "c", "i", "s", "t">>
N_composer == <<"c", "o", "m", "p", "o", "s", "e", "r">>
N_copyright == <<"c", "o", "p", "y", "r", "i", "g", "h", "t">>
N_year == <<"y", "e", "a", "r">>
N_key == <<"k", "e", "y">>

\* f"{{name: {value}}}"
Directive(name, value) == <<"{">> \o name \o <<":", " ">> \o value \o <<"}">>

\* re.search(r'(\d{4})', s): the leftmost run of four digits
YearMatch(s) ==
    LET hits == {i \in 1..(Len(s) - 3) : \A k \in i..(i + 3) : s[k] \in Digits}
    IN  IF hits = {} THEN None
        ELSE LET i == CHOOSE h \in hits : \A g \in hits : h <= g
             IN  Some(SubSeq(s, i, i + 3))

\* a header that holds a number line and a title line also on a miss
HeaderLinesOnMiss(csv_metadata) ==
    LET c == IF csv_metadata = None THEN SongMetadata(<<>>, <<>>, <<>>, <<>>, <<>>)
             ELSE csv_metadata[1]
    IN  <<Directive(N_number, c.number),
          Directive(N_title, fix_french_punctuation(c.title))>>

\* lines 406-425
HeaderLines(csv_metadata) ==
    IF csv_metadata = None THEN <<>>
    ELSE LET c == csv_metadata[1]
         IN  <<Directive(N_number, c.number),
               Directive(N_title, fix_french_punctuation(c.title))>>
             \o (IF c.author # <<>>
                 THEN <<Directive(N_lyricist, fix_french_punctuation(c.author))>>
                 ELSE <<>>)
             \o (IF c.composer # <<>>
                 THEN <<Directive(N_composer, fix_french_punctuation(c.composer))>>
                 ELSE <<>>)
             \o (IF c.copyright # <<>>
                 THEN <<Directive(N_copyright, fix_french_punctuation(c.copyright))>>
                      \o (IF YearMatch(c.copyright) # None
                          THEN <<Directive(N_year, YearMatch(c.copyright)[1])>>
                          ELSE <<>>)
                 ELSE <<>>)

\* lines 428-429
KeyLine(file_md) ==
    IF DictHas(file_md, N_key) THEN <<Directive(N_key, DictGet(file_md, N_key))>>
    ELSE <<>>

\* lines 434-441, the lines written for one section
SectionBlock(section) ==
    <<StartOfPrefix \o section.type \o <<"}">>>>
    \o [n \in 1..Len(section.content) |->
            IF ~StartsWith(Strip(section.content[n]), BracePrefix)
            THEN fix_french_punctuation(section.content[n])
            ELSE section.content[n]]
    \o <<EndOfPrefix \o section.type \o <<"}">>, <<>>>>

SectionBlocks(secs) == Concat([n \in 1..Len(secs) |-> SectionBlock(secs[n])])

\* output_lines of enhance_chordpro for the file stem and the parse result
enhance_chordpro(stem, file_md, secs) ==
    HeaderLines(Lookup(Lower(stem))) \o KeyLine(file_md) \o <<<<>>>> \o SectionBlocks(secs)

\* enhance_chordpro after its parse (lines 395-450): the lines are built and
\* written to the enhanced file
EnhanceChordpro ==
    /\ pc = "parsed"
    /\ caller = "enhance"
    /\ file_metadata' = metadata
    /\ original_sections' = sections
    /\ output_lines' = enhance_chordpro(filename, metadata, sections)
    /\ enhanced_file' = Join(enhance_chordpro(filename, metadata, sections))
    /\ pc' = "enhanced"
    /\ UNCHANGED <<caller, filename>>
    /\ UNCHANGED <<parserVars, showVars, punctVars, chordVars, batchVars>>

\* generate_freeshow_file opens the enhanced file and parses it (lines 555,
\* 259-284)
GenerateOpen ==
    /\ pc = "enhanced"
    /\ lines' = Split(enhanced_file)
    /\ pos' = 1
    /\ metadata' = <<>>
    /\ sections' = <<>>
    /\ current_section_label' = None
    /\ current_section_content' = <<>>
    /\ current_section_info' = None
    /\ in_section' = FALSE
    /\ caller' = "generate"
    /\ pc' = "parse"
    /\ UNCHANGED <<filename, file_metadata, original_sections, output_lines, enhanced_file>>
    /\ UNCHANGED <<showVars, punctVars, chordVars, batchVars>>

(***************************************************************************)
(* Batch processing.  A document of the batch is its place in the listing  *)
(* together with what the environment does to it: "ok", the download       *)
(* fails (download_file returns None), enhance_chordpro raises (the file   *)
(* cannot be read or written) or generate_freeshow_file raises.            *)
(***************************************************************************)
Say(msg, arg) == [msg |-> msg, arg |-> arg]

\* the loop body of process_files_local with no try/except around it
ProcessLocalFileNoExcept ==
    /\ pc = "batch"
    /\ batch_mode = "local"
    /\ file_i <= Len(chordpro_files)
    /\ LET f == chordpro_files[file_i]
           start == <<Say("Processing", f.filename)>>
       IN  IF f.outcome = "ok"
           THEN /\ printed' = printed \o start
                       \o <<Say("Enhanced", f.filename), Say("Show file", f.filename)>>
                /\ processed_files' = Append(processed_files, [original |-> f.filename])
                /\ file_i' = file_i + 1
                /\ pc' = pc
           ELSE /\ printed' = printed \o start
                       \o (IF f.outcome = "generate_raises"
                           THEN <<Say("Enhanced", f.filename)>> ELSE <<>>)
                /\ pc' = "batch_aborted"
                /\ UNCHANGED <<processed_files, file_i>>
    /\ UNCHANGED <<batch_mode, chordpro_files>>
    /\ UNCHANGED <<parserVars, showVars, punctVars, chordVars, enhanceVars>>

\* process_files_local, one pass of the loop body, lines 898-918
ProcessLocalFile ==
    /\ pc = "batch"
    /\ batch_mode = "local"
    /\ file_i <= Len(chordpro_files)
    /\ LET f == chordpro_files[file_i]
           start == <<Say("Processing", f.filename)>>
       IN  CASE f.outcome = "ok" ->
                /\ printed' = printed \o start
                       \o <<Say("Enhanced", f.filename), Say("Show file", f.filename)>>
                /\ processed_files' = Append(processed_files, [original |-> f.filename])
            [] f.outcome = "enhance_raises" ->
                /\ printed' = printed \o start \o <<Say("Error processing", f.filename)>>
                /\ UNCHANGED processed_files
            [] f.outcome = "generate_raises" ->
                /\ printed' = printed \o start
                       \o <<Say("Enhanced", f.filename), Say("Error processing", f.filename)>>
                /\ UNCHANGED processed_files
    /\ file_i' = file_i + 1
    /\ UNCHANGED <<pc, batch_mode, chordpro_files>>
    /\ UNCHANGED <<parserVars, showVars, punctVars, chordVars, enhanceVars>>

\* process_files_local after the loop, lines 920-922
LocalReport ==
    /\ pc = "batch"
    /\ batch_mode = "local"
    /\ file_i > Len(chordpro_files)
    /\ printed' = Append(printed, Say("Processed", Len(processed_files)))
    /\ pc' = "batch_done"
    /\ UNCHANGED <<batch_mode, chordpro_files, file_i, processed_files>>
    /\ UNCHANGED <<parserVars, showVars, punctVars, chordVars, enhanceVars>>

\* process_files_online, one pass of the loop body, lines 931-959
ProcessOnlineFile ==
    /\ pc = "batch"
    /\ batch_mode = "online"
    /\ file_i <= Len(chordpro_files)
    /\ LET f == chordpro_files[file_i]
           start == <<Say("Processing", f.filename)>>
           downloaded == start \o <<Say("Downloaded", f.filename)>>
       IN  CASE f.outcome = "ok" ->
                /\ printed' = printed \o downloaded
                       \o <<Say("Enhanced", f.filename), Say("Show file", f.filename)>>
                /\ processed_files' = Append(processed_files, [original |-> f.filename])
            [] f.outcome = "download_fails" ->
                /\ printed' = printed \o start \o <<Say("Could not download", f.filename)>>
                /\ UNCHANGED processed_files
            [] f.outcome = "enhance_raises" ->
                /\ printed' = printed \o downloaded
                       \o <<Say("Error processing", f.filename)>>
                /\ UNCHANGED processed_files
            [] f.outcome = "generate_raises" ->
                /\ printed' = printed \o downloaded
                       \o <<Say("Enhanced", f.filename), Say("Error processing", f.filename)>>
                /\ UNCHANGED processed_files
    /\ file_i' = file_i + 1
    /\ UNCHANGED <<pc, batch_mode, chordpro_files>>
    /\ UNCHANGED <<parserVars, showVars, punctVars, chordVars, enhanceVars>>

\* process_files_online after the loop, lines 961-978: the report, then one
\* summary line for each processed file
OnlineReport ==
    /\ pc = "batch"
    /\ batch_mode = "online"
    /\ file_i > Len(chordpro_files)
    /\ printed' = Append(printed, Say("Processed", Len(processed_files)))
                    \o [n \in 1..Len(processed_files) |->
                            Say("Song", processed_files[n].original)]
    /\ pc' = "batch_done"
    /\ UNCHANGED <<batch_mode, chordpro_files, file_i, processed_files>>
    /\ UNCHANGED <<parserVars, showVars, punctVars, chordVars, enhanceVars>>

(***************************************************************************)
(* Inputs and specifications.                                              *)
(***************************************************************************)
PunctAlphabet == {"a", " ", NBSP, ":", LAQUO, RAQUO}
ChordAlphabet == {"[", "]", "a", "G"}

L_start_verse == <<"{", "s", "t", "a", "r", "t", "_", "o", "f", "_", "v", "e", "r", "s", "e", "}">>
L_start_empty == <<"{", "s", "t", "a", "r", "t", "_", "o", "f", "_", "}">>
L_end_verse == <<"{", "e", "n", "d", "_", "o", "f", "_", "v", "e", "r", "s", "e", "}">>
L_label == <<"{", "c", ":", " ", "P", "o", "n", "t", " ", "2", "}">>
L_key == <<"{", "k", "e", "y", ":", " ", "C", "}">>
L_malformed == <<"{", "b", "a", "d">>
L_text == <<" ", "a">>
L_blank == <<>>

DocLines == {L_start_verse, L_start_empty, L_end_verse, L_label, L_key, L_malformed,
             L_text, L_blank}

ParserStart ==
    /\ pos = 1
    /\ metadata = <<>>
    /\ sections = <<>>
    /\ current_section_label = None
    /\ current_section_content = <<>>
    /\ current_section_info = None
    /\ in_section = FALSE

ShowIdle ==
    /\ unique_sections = <<>>
    /\ index_map = <<>>
    /\ unique_slide_ids = <<>>
    /\ slides = <<>>
    /\ layout_slides = <<>>

PunctIdle == text = <<>> /\ fixed = <<>> /\ fixed_twice = <<>>
ChordIdle == chord_line = <<>> /\ chords = <<>> /\ clean_text = <<>>

\* generate_freeshow_file is the caller of the parser; enhance_chordpro is not running
EnhanceIdle ==
    /\ caller = "generate"
    /\ filename = <<>>
    /\ file_metadata = <<>>
    /\ original_sections = <<>>
    /\ output_lines = <<>>
    /\ enhanced_file = <<>>

BatchIdle ==
    /\ batch_mode = "none"
    /\ chordpro_files = <<>>
    /\ file_i = 1
    /\ processed_files = <<>>
    /\ printed = <<>>

\* a document of at most MaxLines lines; content.split('\n') is never empty
Init ==
    /\ pc = "parse"
    /\ lines \in StringsUpTo(DocLines, MaxLines) \ {<<>>}
    /\ ParserStart /\ ShowIdle /\ PunctIdle /\ ChordIdle /\ EnhanceIdle /\ BatchIdle

InitPunct ==
    /\ pc = "punct_start"
    /\ text \in StringsUpTo(PunctAlphabet, MaxTextLen)
    /\ fixed = <<>> /\ fixed_twice = <<>>
    /\ lines = <<>>
    /\ ParserStart /\ ShowIdle /\ ChordIdle /\ EnhanceIdle /\ BatchIdle

InitChord ==
    /\ pc = "chord_start"
    /\ chord_line \in StringsUpTo(ChordAlphabet, MaxChordLineLen)
    /\ chords = <<>> /\ clean_text = <<>>
    /\ lines = <<>>
    /\ ParserStart /\ ShowIdle /\ PunctIdle /\ EnhanceIdle /\ BatchIdle

\* section blocks: a start marker, content lines, an end marker
K_chorus == <<<<"{", "s", "t", "a", "r", "t", "_", "o", "f", "_", "c", "h", "o", "r", "u", "s", "}">>, <<"x">>, <<"{", "e", "n", "d", "_", "o", "f", "_", "c", "h", "o", "r", "u", "s", "}">>>>
K_chorus_labelled ==
    <<<<"{", "s", "t", "a", "r", "t", "_", "o", "f", "_", "c", "h", "o", "r", "u", "s", "}">>, <<"{", "c", ":", " ", "R", "}">>, <<"x">>, <<"{", "e", "n", "d", "_", "o", "f", "_", "c", "h", "o", "r", "u", "s", "}">>>>
K_verse == <<<<"{", "s", "t", "a", "r", "t", "_", "o", "f", "_", "v", "e", "r", "s", "e", "}">>, <<"1", "x">>, <<"{", "e", "n", "d", "_", "o", "f", "_", "v", "e", "r", "s", "e", "}">>>>
K_verse0 == <<<<"{", "s", "t", "a", "r", "t", "_", "o", "f", "_", "v", "e", "r", "s", "e", "0", "}">>, <<"x">>, <<"{", "e", "n", "d", "_", "o", "f", "_", "v", "e", "r", "s", "e", "0", "}">>>>
K_empty == <<<<"{", "s", "t", "a", "r", "t", "_", "o", "f", "_", "v", "e", "r", "s", "e", "}">>, <<"{", "e", "n", "d", "_", "o", "f", "_", "v", "e", "r", "s", "e", "}">>>>
K_blank == <<<<"{", "s", "t", "a", "r", "t", "_", "o", "f", "_", "v", "e", "r", "s", "e", "}">>, <<>>, <<"{", "e", "n", "d", "_", "o", "f", "_", "v", "e", "r", "s", "e", "}">>>>
K_indented == <<L_start_verse, <<" ", " ", "{", "c", ":", " ", "R", "}">>, <<"a", "[", "G", "]", "b">>, L_end_verse>>
K_enum == <<L_start_verse, <<"1", ".", "[", "G", "]", "a">>, L_end_verse>>

Blocks == {K_chorus, K_chorus_labelled, K_verse, K_verse0, K_empty, K_blank, K_indented,
           K_enum}

\* a document of at most MaxSections section blocks
InitShow ==
    /\ pc = "parse"
    /\ \E blocks \in StringsUpTo(Blocks, MaxSections) \ {<<>>} : lines = Concat(blocks)
    /\ ParserStart /\ ShowIdle /\ PunctIdle /\ ChordIdle /\ EnhanceIdle /\ BatchIdle

Next ==
    \/ ParseCommentLine
    \/ ParseStartLine
    \/ ParseEndLine
    \/ ParseBraceLine
    \/ ParseContentLine
    \/ ParseSkipLine
    \/ ParseReturn
    \/ BuildShow

\* the parser and the show builder on a block document: no line lies outside
\* a section there
NextShow ==
    \/ ParseCommentLine
    \/ ParseStartLine
    \/ ParseEndLine
    \/ ParseContentLine
    \/ ParseReturn
    \/ BuildShow

Spec == Init /\ [][Next]_vars
SpecShow == InitShow /\ [][NextShow]_vars
SpecPunct == InitPunct /\ [][FixFrenchPunctuation]_vars
SpecChord == InitChord /\ [][ParseChordLine]_vars

\* pieces of a document given to enhance_chordpro: directives and labels
\* outside sections, and section blocks
P_key == <<L_key>>
P_label == <<<<"{", "c", ":", " ", "x", "}">>>>
K_label_inside == <<L_start_verse, L_label, L_end_verse>>
K_punct == <<L_start_verse, <<"a", " ", ":">>, L_end_verse>>
K_brace_inside == <<L_start_verse, <<" ", "{", "x", " ", ":", "}">>, L_end_verse>>

Pieces == {P_key, P_label, K_label_inside, K_punct, K_brace_inside, K_chorus}

\* stems of the files: one that needs lowercasing to hit the table, one that
\* misses, one that hits as written
Stems == {<<"J", "1">>, <<"j", "2">>, <<"j", "3">>}

InitEnhance ==
    /\ pc = "parse"
    /\ \E pieces \in StringsUpTo(Pieces, MaxPieces) \ {<<>>} : lines = Concat(pieces)
    /\ caller = "enhance"
    /\ filename \in Stems
    /\ file_metadata = <<>>
    /\ original_sections = <<>>
    /\ output_lines = <<>>
    /\ enhanced_file = <<>>
    /\ ParserStart /\ ShowIdle /\ PunctIdle /\ ChordIdle /\ BatchIdle

\* enhance_chordpro, then generate_freeshow_file on the file it wrote
NextEnhance ==
    \/ ParseCommentLine
    \/ ParseStartLine
    \/ ParseEndLine
    \/ ParseBraceLine
    \/ ParseContentLine
    \/ ParseSkipLine
    \/ ParseReturn
    \/ EnhanceChordpro
    \/ GenerateOpen
    \/ BuildShow

SpecEnhance == InitEnhance /\ [][NextEnhance]_vars

\* documents of comment labels, section markers and directives
L_pont == <<"{", "c", ":", " ", "P", "o", "n", "t", "}">>
L_nolabel == <<"{", "c", ":", "}">>
L_keyonly == <<"{", "k", "e", "y", "}">>
L_tempo == <<" ", "{", "t", ":", "D", " ", "}">>

LabelLines == {L_start_verse, L_end_verse, L_label, L_pont, L_nolabel, L_key, L_keyonly,
               L_tempo, L_malformed}

InitLabels ==
    /\ pc = "parse"
    /\ lines \in StringsUpTo(LabelLines, MaxLabelLines) \ {<<>>}
    /\ ParserStart /\ ShowIdle /\ PunctIdle /\ ChordIdle /\ EnhanceIdle /\ BatchIdle

\* the parser on such a document: every line is a brace line
NextLabels ==
    \/ ParseCommentLine
    \/ ParseStartLine
    \/ ParseEndLine
    \/ ParseBraceLine
    \/ ParseReturn

SpecLabels == InitLabels /\ [][NextLabels]_vars

\* a batch of at most MaxBatch documents; a local file is never downloaded
LocalOutcomes == {"ok", "enhance_raises", "generate_raises"}
OnlineOutcomes == LocalOutcomes \cup {"download_fails"}

BatchOf(outcomes) == [n \in 1..Len(outcomes) |-> [filename |-> n, outcome |-> outcomes[n]]]

InitBatch ==
    /\ pc = "batch"
    /\ batch_mode \in {"local", "online"}
    /\ \E outcomes \in StringsUpTo(IF batch_mode = "local" THEN LocalOutcomes
                                    ELSE OnlineOutcomes, MaxBatch) :
           chordpro_files = BatchOf(outcomes)
    /\ file_i = 1
    /\ processed_files = <<>>
    /\ printed = <<>>
    /\ lines = <<>>
    /\ ParserStart /\ ShowIdle /\ PunctIdle /\ ChordIdle /\ EnhanceIdle

NextBatch ==
    \/ ProcessLocalFile
    \/ LocalReport
    \/ ProcessOnlineFile
    \/ OnlineReport

\* the batch is one sequential loop: a pass that can run does run
SpecBatch == InitBatch /\ [][NextBatch]_vars /\ WF_vars(NextBatch)

(***************************************************************************)
(* Properties.                                                             *)
(***************************************************************************)
Built == pc = "done"

\* C1: two sections get the same canonical index exactly when their content
\* lines, comment-label lines left out, are the same line for line (the
\* empty list of lines and the list of one empty line being different).
C1_SameIndexIffSameContent ==
    Built =>
        \A i, j \in 1..Len(sections) :
            (index_map[i] = index_map[j])
                <=> (ContentLines(sections[i].content) = ContentLines(sections[j].content))

\* C2: the layout has one entry per parsed section, entry i is the slide
\* identifier of canonical section index_map[i], every identifier is a key of
\* the slides mapping, and two entries are equal exactly when the two
\* sections were deduplicated together.
C2_LayoutMirrorsSections ==
    Built =>
        /\ Len(layout_slides) = Len(sections)
        /\ Len(index_map) = Len(sections)
        /\ \A i \in 1..Len(layout_slides) :
              /\ layout_slides[i].id =
                    SlideId(unique_sections[index_map[i] + 1], index_map[i])
              /\ DictHas(slides, layout_slides[i].id)
        /\ \A i, j \in 1..Len(layout_slides) :
              (layout_slides[i].id = layout_slides[j].id) <=> (index_map[i] = index_map[j])

IsMarker(line) == IsStartLine(line) \/ IsEndLine(line)

\* C3: a start marker read while a section is open emits that section first,
\* with its name, type, ordinal and every content line collected so far,
\* leaves the earlier sections alone, and opens the new section with no
\* content line.
C3_AutoClose ==
    [][(Parsing /\ IsStartLine(lines[pos]) /\ in_section) =>
          /\ Len(sections') = Len(sections) + 1
          /\ SubSeq(sections', 1, Len(sections)) = sections
          /\ sections'[Len(sections')].name = current_section_info[1].name
          /\ sections'[Len(sections')].type = current_section_info[1].type
          /\ sections'[Len(sections')].number = current_section_info[1].number
          /\ sections'[Len(sections')].content = current_section_content
          /\ sections'[Len(sections')].raw_content = Join(current_section_content)
          /\ current_section_content' = <<>>
          /\ in_section']_vars

\* a labelled section with a content line was closed by the start marker just read
C3_Witness ==
    /\ pc = "parse" /\ pos = 5
    /\ lines[1] = L_label /\ IsStartLine(lines[2]) /\ lines[3] = L_text
    /\ IsStartLine(lines[4])
    /\ Len(sections) = 1
    /\ sections[1].content = <<L_text>>
    /\ sections[1].type = W_bridge
    /\ sections[1].number = Some(<<"2">>)
    /\ current_section_content = <<>>

\* the start markers among the first n lines that a later marker among them closes
ClosedStarts(n) ==
    {a \in 1..n : IsStartLine(lines[a]) /\ \E b \in (a + 1)..n : IsMarker(lines[b])}

\* the first marker after line a
Boundary(a) == CHOOSE b \in (a + 1)..Len(lines) :
                  IsMarker(lines[b]) /\ \A k \in (a + 1)..(b - 1) : ~IsMarker(lines[k])

\* the k-th smallest element of the set S of numbers
Nth(S, k) == CHOOSE a \in S : Cardinality({x \in S : x < a}) = k - 1

\* the last start marker of the document is followed by no marker
OpenAtEnd ==
    \E a \in 1..Len(lines) :
        IsStartLine(lines[a]) /\ \A b \in (a + 1)..Len(lines) : ~IsMarker(lines[b])

LastStart == CHOOSE a \in 1..Len(lines) :
                IsStartLine(lines[a]) /\ \A b \in (a + 1)..Len(lines) : ~IsStartLine(lines[b])

RECURSIVE SumLen(_)
SumLen(ss) == IF ss = <<>> THEN 0 ELSE Len(Head(ss).content) + SumLen(Tail(ss))

\* C4: the returned list holds one section per start marker that an end
\* marker or a later start marker closes, and none for a section still open
\* at the end of the input: its lines stay in the accumulator and are in no
\* returned section.
C4_TrailingSectionNotEmitted ==
    pc \in {"parsed", "done"} =>
        /\ Len(sections) = Cardinality(ClosedStarts(Len(lines)))
        /\ OpenAtEnd =>
              /\ in_section
              /\ current_section_content = SubSeq(lines, LastStart + 1, Len(lines))
              /\ SumLen(sections) =
                    Cardinality({k \in 1..(LastStart - 1) :
                        /\ ~IsMarker(lines[k])
                        /\ \E a \in ClosedStarts(Len(lines)) : a < k /\ k < Boundary(a)})

\* the input ended inside a section that holds a line, after another section was emitted
C4_Witness ==
    /\ pc = "parsed"
    /\ OpenAtEnd
    /\ current_section_content # <<>>
    /\ Len(sections) = 1

\* C5: every emitted section has a non-empty type.
C5_TypeNonEmpty ==
    \A k \in 1..Len(sections) : sections[k].type # <<>>

\* C6: the content of the k-th emitted section is the raw lines strictly
\* between the k-th closed start marker and the marker that closed it.
C6_ContentVerbatim ==
    LET starts == ClosedStarts(pos - 1)
    IN  /\ Len(sections) = Cardinality(starts)
        /\ \A k \in 1..Len(sections) :
              LET a == Nth(starts, k)
              IN  sections[k].content = SubSeq(lines, a + 1, Boundary(a) - 1)

\* a section holding a directive, an indented text line and nothing else was emitted
C6_Witness ==
    /\ pc = "parsed"
    /\ Len(sections) = 1
    /\ sections[1].content = <<L_key, L_text>>

\* C7: the normalizer applied to its own result changes nothing.
C7_Idempotent ==
    pc = "punct_twice" => fixed_twice = fixed

\* the input holds a non-breaking space and two white-space characters
\* before a mark, and the first application changed it
C7_Witness ==
    /\ pc = "punct_twice"
    /\ fixed # text
    /\ \E k \in 1..Len(text) : text[k] = NBSP
    /\ \E k \in 1..(Len(text) - 2) :
          IsSpace(text[k]) /\ IsSpace(text[k + 1]) /\ text[k + 2] \in DoublePunct

\* C8: the normalizer only replaces white space before a mark or after an
\* opening guillemet by a non-breaking space: it adds and removes nothing,
\* and it returns a string with no such white space unchanged.
C8_OnlyWhitespaceReplaced ==
    pc \in {"punct_once", "punct_twice"} =>
        /\ Len(fixed) = Len(text)
        /\ \A k \in 1..Len(text) :
              fixed[k] # text[k] =>
                  /\ IsSpace(text[k])
                  /\ fixed[k] = NBSP
                  /\ \/ k < Len(text) /\ text[k + 1] \in DoublePunct
                     \/ k > 1 /\ text[k - 1] = LAQUO
        /\ (\A k \in 1..Len(text) :
               /\ (text[k] \in DoublePunct /\ k > 1) => ~IsSpace(text[k - 1])
               /\ (text[k] = LAQUO /\ k < Len(text)) => ~IsSpace(text[k + 1]))
              => fixed = text

ChordsDone == pc = "chord_done"

\* the 1-based index of the opening bracket of chord k, and of its closing bracket
Open(k) == chords[k].original_pos + 1
Close(k) == chords[k].original_pos + Len(chords[k].chord) + 2

\* index i of the line lies in the bracket token of some chord
Covered(i) == \E k \in 1..Len(chords) : Open(k) <= i /\ i <= Close(k)

\* the characters of the line from index i on that lie in no bracket token
RECURSIVE Uncovered(_)
Uncovered(i) ==
    IF i > Len(chord_line) THEN <<>>
    ELSE IF Covered(i) THEN Uncovered(i + 1)
    ELSE <<chord_line[i]>> \o Uncovered(i + 1)

RECURSIVE SumBrackets(_)
SumBrackets(cs) == IF cs = <<>> THEN 0 ELSE Len(Head(cs).chord) + 2 + SumBrackets(Tail(cs))

\* C9: the chords are the well-formed bracket annotations of the line, left
\* to right; the stripped text is the line without exactly these tokens, so
\* its length is the line's less the tokens'; what stays in the text is no
\* annotation: an opening bracket left in it is followed at once by a closing
\* bracket or by none at all.
C9_ChordsStripped ==
    ChordsDone =>
        /\ \A k \in 1..Len(chords) :
              /\ chords[k].chord # <<>>
              /\ \A n \in 1..Len(chords[k].chord) : chords[k].chord[n] # "]"
              /\ Close(k) <= Len(chord_line)
              /\ chord_line[Open(k)] = "["
              /\ chord_line[Close(k)] = "]"
              /\ SubSeq(chord_line, Open(k) + 1, Close(k) - 1) = chords[k].chord
              /\ chords[k].key = chords[k].chord
              /\ k > 1 => Close(k - 1) < Open(k)
        /\ clean_text = Uncovered(1)
        /\ Len(clean_text) = Len(chord_line) - SumBrackets(chords)
        /\ \A i \in 1..Len(clean_text) :
              clean_text[i] = "[" =>
                  \/ i < Len(clean_text) /\ clean_text[i + 1] = "]"
                  \/ \A j \in (i + 1)..Len(clean_text) : clean_text[j] # "]"

\* two different chords were found and an unclosed bracket stayed in the text
C9_Witness ==
    /\ ChordsDone
    /\ Len(chords) = 2
    /\ chords[1].chord # chords[2].chord
    /\ clean_text = <<"[">>

\* the text with '[chord]' of chords k..1 put back at their pos, last chord first
RECURSIVE Reinsert(_, _)
Reinsert(t, k) ==
    IF k = 0 THEN t
    ELSE Reinsert(SubSeq(t, 1, chords[k].pos) \o <<"[">> \o chords[k].chord \o <<"]">>
                    \o SubSeq(t, chords[k].pos + 1, Len(t)),
                  k - 1)

\* C10: a chord's pos is its bracket's offset in the line less the length of
\* the bracket tokens to its left; it is not negative, does not decrease from
\* left to right, is at most the length of the stripped text, and putting
\* every '[chord]' back at its pos rebuilds the line.
C10_ChordPositions ==
    ChordsDone =>
        /\ \A k \in 1..Len(chords) :
              /\ chords[k].pos =
                    chords[k].original_pos - SumBrackets(SubSeq(chords, 1, k - 1))
              /\ chords[k].pos >= 0
              /\ chords[k].pos <= Len(clean_text)
              /\ k > 1 => chords[k - 1].pos <= chords[k].pos
        /\ Reinsert(clean_text, Len(chords)) = chord_line

\* two chords with text between them: the second one's pos is neither 0 nor its offset
C10_Witness ==
    /\ ChordsDone
    /\ Len(chords) = 2
    /\ chords[2].pos > chords[1].pos
    /\ chords[2].pos < chords[2].original_pos

(***************************************************************************)
(* C11: in process_files_local and process_files_online a failure while    *)
(* downloading, enriching or synthesizing one document does not stop the   *)
(* batch: every document is attempted exactly once in list order, the      *)
(* loop always reaches its end, and the reported number of processed       *)
(* files is the number of documents for which every step succeeded.        *)
(***************************************************************************)
Attempts == SelectSeq(printed, LAMBDA m : m.msg = "Processing")
Reports == SelectSeq(printed, LAMBDA m : m.msg = "Processed")
Succeeded(n) == {k \in 1..n : chordpro_files[k].outcome = "ok"}

BatchInv ==
    /\ file_i \in 1..(Len(chordpro_files) + 1)
    /\ Attempts = [n \in 1..(file_i - 1) |-> Say("Processing", chordpro_files[n].filename)]
    /\ Len(processed_files) = Cardinality(Succeeded(file_i - 1))
    /\ pc \in {"batch", "batch_done"}
    /\ pc = "batch" => Reports = <<>>
    /\ pc = "batch_done" =>
           /\ file_i = Len(chordpro_files) + 1
           /\ Reports = <<Say("Processed", Cardinality(Succeeded(Len(chordpro_files))))>>

C11_BatchIsolation == []BatchInv /\ <>(pc = "batch_done")

\* a batch whose first document fails and whose last document is processed
C11_Witness ==
    /\ pc = "batch_done"
    /\ Len(chordpro_files) = MaxBatch
    /\ chordpro_files[1].outcome # "ok"
    /\ chordpro_files[MaxBatch].outcome = "ok"
    /\ processed_files # <<>>

(***************************************************************************)
(* C12: when the lowercased stem of the file is not a key of the metadata  *)
(* table, enhance_chordpro raises no error and the header of the enriched  *)
(* document holds no number, title, author, composer, copyright or year    *)
(* line: it holds the key directive when the source has one and nothing    *)
(* otherwise, followed by the blank separator and the sections.            *)
(***************************************************************************)
Enhanced == pc = "enhanced"

\* the lines before the first blank line, and the lines after it
HeaderOf(out) == SubSeq(out, 1, FirstIndexOf(out, <<>>, 1) - 1)
BodyOf(out) == SubSeq(out, FirstIndexOf(out, <<>>, 1) + 1, Len(out))

\* the source holds a generic directive line whose key is 'key'
SourceKeyLines ==
    {n \in 1..Len(lines) : /\ IsBraceLine(lines[n])
                           /\ DirectiveMatch(Strip(lines[n])) # None
                           /\ Strip(DirectiveMatch(Strip(lines[n]))[1].group1) = N_key}

RECURSIVE BodyLen(_)
BodyLen(secs) == IF secs = <<>> THEN 0 ELSE Len(Head(secs).content) + 3 + BodyLen(Tail(secs))

C12_MissingMetadataHeader ==
    (Enhanced /\ ~DictHas(self_metadata, Lower(filename))) =>
        /\ FirstIndexOf(output_lines, <<>>, 1) > 0
        /\ IF SourceKeyLines = {}
           THEN HeaderOf(output_lines) = <<>>
           ELSE /\ Len(HeaderOf(output_lines)) = 1
                /\ StartsWith(HeaderOf(output_lines)[1], <<"{">> \o N_key \o <<":">>)
        /\ Len(BodyOf(output_lines)) = BodyLen(original_sections)
        /\ \A n \in 1..Len(original_sections) :
               \E k \in 1..Len(BodyOf(output_lines)) :
                   BodyOf(output_lines)[k] = StartOfPrefix \o original_sections[n].type \o <<"}">>
        /\ enhanced_file = Join(output_lines)

\* a miss on a document that holds a key directive and a section
C12_Witness ==
    /\ Enhanced
    /\ ~DictHas(self_metadata, Lower(filename))
    /\ SourceKeyLines # {}
    /\ original_sections # <<>>
    /\ Len(HeaderOf(output_lines)) = 1

(***************************************************************************)
(* C13: after parsing, the directive mapping holds for each key the        *)
(* trimmed value (or the empty string) of the last generic directive line  *)
(* with that key, inside or outside a section; comment-label lines and     *)
(* section markers add or change no entry, and a brace line that fails     *)
(* the key/value pattern adds none and raises no error.                    *)
(***************************************************************************)
Parsed == pc = "parsed"

\* the lines that are generic directives and match the key/value pattern
DirectiveLines ==
    {n \in 1..Len(lines) : IsBraceLine(lines[n]) /\ DirectiveMatch(Strip(lines[n])) # None}
KeyAt(n) == Strip(DirectiveMatch(Strip(lines[n]))[1].group1)
ValueAt(n) ==
    LET g2 == DirectiveMatch(Strip(lines[n]))[1].group2
    IN  IF g2 = None THEN <<>> ELSE Strip(g2[1])
LastOfKey(n) == \A k \in DirectiveLines : KeyAt(k) = KeyAt(n) => k <= n

C13_DirectiveMapping ==
    Parsed =>
        /\ \A n \in DirectiveLines :
               LastOfKey(n) =>
                   /\ DictHas(metadata, KeyAt(n))
                   /\ DictGet(metadata, KeyAt(n)) = ValueAt(n)
        /\ \A e \in 1..Len(metadata) :
               /\ \E n \in DirectiveLines : KeyAt(n) = metadata[e].key
               /\ \A f \in 1..Len(metadata) : metadata[f].key = metadata[e].key => f = e

\* two values for one key, the later one inside a section, after a brace
\* line that fails the pattern and a comment label
C13_Witness ==
    /\ Parsed
    /\ lines = <<L_malformed, L_key, L_start_verse, L_keyonly>>
    /\ metadata = <<[key |-> N_key, value |-> <<>>]>>

(***************************************************************************)
(* C14: when the pending label is exactly one word of the synonym table    *)
(* with no ordinal ('Refrain', 'Pont', 'Strophe', 'Intro'), the section    *)
(* opened by the next start marker gets that word's canonical type,        *)
(* whatever the marker's block type is, and gets no ordinal.               *)
(***************************************************************************)
AtStartLine == Parsing /\ IsStartLine(lines[pos])

\* the pending label is one key of label_to_type_map, in any case of letters
BareSynonym(label) ==
    /\ Truthy(label)
    /\ \E k \in 1..Len(label_to_type_map) : Lower(label[1]) = label_to_type_map[k].key
CanonicalType(label) ==
    label_to_type_map[CHOOSE k \in 1..Len(label_to_type_map) :
                          Lower(label[1]) = label_to_type_map[k].key].value

C14_BareSynonymLabel ==
    [][(AtStartLine /\ BareSynonym(current_section_label)) =>
           /\ current_section_info'[1].type = CanonicalType(current_section_label)
           /\ current_section_info'[1].number = None]_vars

(***************************************************************************)
(* C15: a non-empty comment label is applied to exactly one section, the   *)
(* one opened by the first start marker after the most recent              *)
(* comment-label line, also when that line lay inside the previous         *)
(* section and whatever end markers or directives stand in between; it is  *)
(* then cleared, so a later start marker with no comment-label line since  *)
(* gets the title-cased block type as name, the block type as type and no  *)
(* ordinal.                                                                *)
(***************************************************************************)
\* the comment-label lines before line n with no start marker after them
PendingLines(n) ==
    {c \in 1..(n - 1) : /\ IsCommentLine(lines[c])
                        /\ \A k \in (c + 1)..(n - 1) : ~IsStartLine(lines[k])}
LastPending(n) == CHOOSE c \in PendingLines(n) : \A k \in PendingLines(n) : k <= c
LabelText(line) == Strip(SliceToLast(Strip(line), 3))
BlockType(line) == Strip(SliceToLast(Strip(line), 10))

C15_LabelConsumedOnce ==
    [][AtStartLine =>
           IF PendingLines(pos) # {} /\ LabelText(lines[LastPending(pos)]) # <<>>
           THEN /\ current_section_info'[1].name = LabelText(lines[LastPending(pos)])
                /\ current_section_label' = None
           ELSE current_section_info' =
                    Some([name |-> Title(BlockType(lines[pos])),
                          type |-> BlockType(lines[pos]),
                          number |-> None])]_vars

\* a label inside the first section names the second section and not the third
C15_Witness ==
    /\ lines = <<L_start_verse, L_label, L_start_verse, L_start_verse>>
    /\ pos = 5
    /\ Len(sections) = 2
    /\ sections[1].name = <<"V", "e", "r", "s", "e">>
    /\ sections[2].name = <<"P", "o", "n", "t", " ", "2">>
    /\ sections[2].type = W_bridge
    /\ current_section_info = Some([name |-> <<"V", "e", "r", "s", "e">>, type |-> W_verse,
                                    number |-> None])

(***************************************************************************)
(* C16: the display lines of a slide are exactly the section's content     *)
(* lines that are neither comment-label lines nor blank, one display line  *)
(* per such line and in the same order; a line that starts with '{c:'      *)
(* after trimming, such as an indented label, gives no display line.       *)
(***************************************************************************)
\* no two canonical sections share a slide identifier
IdsDiffer ==
    \A i, j \in 1..Len(unique_slide_ids) :
        unique_slide_ids[i] = unique_slide_ids[j] => i = j

SlideOf(i) == DictGet(slides, unique_slide_ids[i])
Shown(content) ==
    SelectSeq(content, LAMBDA line : ~IsCommentLine(line) /\ Strip(line) # <<>>)
DisplayText(line) ==
    fix_french_punctuation(StripEnumeration(parse_chord_line(line).clean_text))

C16_DisplayLines ==
    (Built /\ IdsDiffer) =>
        \A i \in 1..Len(unique_sections) :
            LET shown == Shown(unique_sections[i].content)
            IN  /\ Len(SlideOf(i).lines) = Len(shown)
                /\ \A k \in 1..Len(shown) : SlideOf(i).lines[k].text = DisplayText(shown[k])

(***************************************************************************)
(* C17: the slides mapping has one entry per canonical section: the        *)
(* strings from which slide identifiers are derived (type, canonical       *)
(* position, raw content, concatenated) are pairwise different for         *)
(* different canonical sections of one document.                           *)
(***************************************************************************)
C17_SlideIdsDistinct ==
    Built =>
        /\ \A i, j \in 1..Len(unique_sections) :
               SlideId(unique_sections[i], i - 1) = SlideId(unique_sections[j], j - 1) => i = j
        /\ Len(slides) = Len(unique_sections)

(***************************************************************************)
(* C18: in every display line each chord's offset is aligned with the      *)
(* display text that is emitted, after the enumeration marker is stripped  *)
(* and the normalizer applied: it is at most the length of the display     *)
(* text and equals the number of display-text characters that come from    *)
(* before the chord's bracket in the source line.                          *)
(***************************************************************************)
\* the display text made from the part of the line before index n (0-based)
DisplayBefore(line, n) ==
    fix_french_punctuation(StripEnumeration(SubChords(SubSeq(line, 1, n), 1)))

\* the content lines from which create_freeshow_slide makes display lines
Displayed(content) ==
    SelectSeq(content, LAMBDA line : ~StartsWith(line, CommentPrefix) /\ Strip(line) # <<>>)

C18_ChordOffsetsAligned ==
    (Built /\ IdsDiffer) =>
        \A i \in 1..Len(unique_sections) :
            LET src == Displayed(unique_sections[i].content)
            IN  \A k \in 1..Len(SlideOf(i).lines) :
                    \A c \in 1..Len(SlideOf(i).lines[k].chords) :
                        LET chord == SlideOf(i).lines[k].chords[c]
                        IN  /\ chord.pos <= Len(SlideOf(i).lines[k].text)
                            /\ chord.pos = Len(DisplayBefore(src[k], chord.original_pos))

(***************************************************************************)
(* C19: the index map has one entry per input section, each a valid index  *)
(* into the canonical list; the canonical list is in order of first        *)
(* occurrence (the first entry is 0 and each entry is at most one more     *)
(* than the largest earlier entry); and the canonical section of section   *)
(* i is the earliest input section with the same fingerprint.              *)
(***************************************************************************)
FirstSame(i) ==
    CHOOSE j \in 1..i :
        /\ ContentHash(sections[j]) = ContentHash(sections[i])
        /\ \A k \in 1..(j - 1) : ContentHash(sections[k]) # ContentHash(sections[i])

C19_IndexMapFirstOccurrence ==
    Built =>
        /\ Len(index_map) = Len(sections)
        /\ \A i \in 1..Len(index_map) :
               /\ index_map[i] \in 0..(Len(unique_sections) - 1)
               /\ i = 1 => index_map[i] = 0
               /\ \A v \in 1..index_map[i] : \E k \in 1..(i - 1) : index_map[k] = v - 1
               /\ unique_sections[index_map[i] + 1] = sections[FirstSame(i)]

\* a repeat whose own name differs from that of its first occurrence,
\* followed by a new section
C19_Witness ==
    /\ Built
    /\ Len(sections) = 3
    /\ index_map = <<0, 0, 1>>
    /\ sections[2].name # sections[1].name
    /\ unique_sections[1].name = sections[1].name

(***************************************************************************)
(* C20: parsing the enriched document written by enhance_chordpro, as      *)
(* generate_freeshow_file does, yields the same section sequence as        *)
(* parsing the original document: the same number of sections and, at      *)
(* each position, the same type and the same content lines up to           *)
(* typography normalization of the lines that are no directives.           *)
(***************************************************************************)
Reparsed == pc = "parsed" /\ caller = "generate"

Normalized(content) ==
    [k \in 1..Len(content) |->
        IF StartsWith(Strip(content[k]), BracePrefix) THEN content[k]
        ELSE fix_french_punctuation(content[k])]

C20_RoundTrip ==
    Reparsed =>
        /\ Len(sections) = Len(original_sections)
        /\ \A n \in 1..Len(sections) :
               /\ sections[n].type = original_sections[n].type
               /\ sections[n].content = Normalized(original_sections[n].content)

====
